---- MODULE Spec2Model ----
(***************************************************************************)
(* Model of the audiofile package (revision src/unnamed/part_002): the     *)
(* WAVE header codec of Wavefile (Load, validate, Save, Init, SetBytes),   *)
(* the PCM helpers and the conversion between byte pairs and int16.        *)
(*                                                                         *)
(* Streams are sequences of bytes; every header field is parsed from and   *)
(* serialized to its bytes as encoding/binary does it.  Numeric values are *)
(* kept below 2^31 (the range of the model checker's integers).            *)
(***************************************************************************)
EXTENDS Integers, Sequences, FiniteSets

VARIABLES
    Header,   \* Wavefile.Header: the 13 fields of Waveheader
    Data,     \* Wavefile.Data
    op,       \* the last method called on the Wavefile ("New" before any call)
    err,      \* the error that call returned ("nil" when none)
    rd,       \* the reader handed to the last Load (NoReader otherwise)
    nread,    \* number of binary.Read calls the last Load made
    rerr,     \* the error of the failed header read of the last Load
    src,      \* the stream of the Load that produced the file ("none" otherwise)
    wcap,     \* capacity of the writer handed to the last Save
    out,      \* the bytes the last Save wrote
    arg,      \* the argument of the last SetBytes (bytes) or SetPCM (samples)
    nwrite,   \* number of Write calls the last Save made
    ret,      \* the value the last GetBytes or GetPCM returned
    sample,   \* codec: an int16 sample (given or decoded)
    pair,     \* codec: a <<low, high>> byte pair (given or encoded)
    back,     \* codec: the result of converting back
    cpc       \* codec: position of the conversion

vars == <<Header, Data, op, err, rd, nread, rerr, src, wcap, out, arg,
          nwrite, ret, sample, pair, back, cpc>>

wavVars == <<Header, Data, op, err, rd, nread, rerr, src, wcap, out, arg,
             nwrite, ret>>
codecVars == <<sample, pair, back, cpc>>

----------------------------------------------------------------------------
(* Constants of the package. *)

MIN_8_BIT == 0
MAX_8_BIT == 255
MIN_16_BIT == -32768
MAX_16_BIT == 32767

Byte == MIN_8_BIT..MAX_8_BIT
Int16 == MIN_16_BIT..MAX_16_BIT

\* The error values.
Nil == "nil"
BadFile == "File is corrupt or not the proper format"

----------------------------------------------------------------------------
(* Fixed-width integer arithmetic of Go. *)

\* Conversion to int16: the low 16 bits, read as two's complement.
ToInt16(x) == ((x + 32768) % 65536) - 32768

\* Conversion to byte: the low 8 bits.
ToByte(x) == x % 256

RECURSIVE BitAnd(_, _)
\* x & y on non-negative integers.
BitAnd(x, y) ==
    IF x = 0 \/ y = 0 THEN 0
    ELSE (x % 2) * (y % 2) + 2 * BitAnd(x \div 2, y \div 2)

RECURSIVE BitOr(_, _)
\* x | y on non-negative integers.
BitOr(x, y) ==
    IF x = 0 THEN y
    ELSE IF y = 0 THEN x
    ELSE (IF x % 2 = 1 \/ y % 2 = 1 THEN 1 ELSE 0) + 2 * BitOr(x \div 2, y \div 2)

\* ^x on int16: the bitwise complement.
BitNot16(x) == -x - 1

----------------------------------------------------------------------------
(* The sample codec. *)

\* A variant that sends the sign-bit pattern 0x8000 through the generic path.
BytesToSigned16NoMin(low, high) ==
    LET highi16 == BitAnd(high, 127)
        highshifted == ToInt16(highi16 * 256)
        out0 == ToInt16(highshifted + low)
    IN  IF BitAnd(high, 128) # 0 THEN ToInt16(out0 * (-1)) ELSE out0

BytesToSigned16(low, high) ==
    IF high = 128 /\ low = 0 THEN MIN_16_BIT
    ELSE LET highi16 == BitAnd(high, 127)
             highshifted == ToInt16(highi16 * 256)
             out0 == ToInt16(highshifted + low)
         IN  IF BitAnd(high, 128) # 0 THEN ToInt16(out0 * (-1)) ELSE out0

\* A bit by bit copy of the int16 into two bytes (two's complement).
Signed16ToBytesBitCopy(in) == <<ToByte(in), ToByte(in \div 256)>>

\* Returns <<low, high>>.
Signed16ToBytes(in) ==
    IF in = -1 THEN <<0, 128>>
    ELSE IF in < 0
         THEN LET n == ToInt16(BitNot16(in) + 1)
              IN  <<ToByte(n), BitOr(ToByte(n \div 256), 128)>>
         ELSE <<ToByte(in), ToByte(in \div 256)>>

----------------------------------------------------------------------------
(* The wire layout: 13 header fields, then the payload. *)

\* The fields of Waveheader in layout order, with their width in bytes.  The
\* four identifiers are byte arrays, the other nine are unsigned integers.
Fields == <<
    [name |-> "ChunkID",       size |-> 4, kind |-> "bytes"],
    [name |-> "ChunkSize",     size |-> 4, kind |-> "uint"],
    [name |-> "Format",        size |-> 4, kind |-> "bytes"],
    [name |-> "Subchunk1ID",   size |-> 4, kind |-> "bytes"],
    [name |-> "Subchunk1Size", size |-> 4, kind |-> "uint"],
    [name |-> "AudioFormat",   size |-> 2, kind |-> "uint"],
    [name |-> "NumChannels",   size |-> 2, kind |-> "uint"],
    [name |-> "SampleRate",    size |-> 4, kind |-> "uint"],
    [name |-> "ByteRate",      size |-> 4, kind |-> "uint"],
    [name |-> "BlockAlign",    size |-> 2, kind |-> "uint"],
    [name |-> "BitsPerSample", size |-> 2, kind |-> "uint"],
    [name |-> "Subchunk2ID",   size |-> 4, kind |-> "bytes"],
    [name |-> "Subchunk2Size", size |-> 4, kind |-> "uint"] >>

NumFields == Len(Fields)

MagicFields == {"ChunkID", "Format", "Subchunk1ID", "Subchunk2ID"}

RECURSIVE FieldOffset(_)
\* Offset of field k in the stream (FieldOffset(NumFields + 1) is the header size).
FieldOffset(k) == IF k = 1 THEN 0 ELSE FieldOffset(k - 1) + Fields[k - 1].size

HeaderSize == FieldOffset(NumFields + 1)

\* The four identifiers validate compares with.
RIFF == <<82, 73, 70, 70>>
WAVE == <<87, 65, 86, 69>>
FMT  == <<102, 109, 116, 32>>
DATA == <<100, 97, 116, 97>>

\* The zero value of Waveheader (a Wavefile{} literal).
ZeroHeader ==
    [ChunkID |-> <<0, 0, 0, 0>>, ChunkSize |-> 0, Format |-> <<0, 0, 0, 0>>,
     Subchunk1ID |-> <<0, 0, 0, 0>>, Subchunk1Size |-> 0, AudioFormat |-> 0,
     NumChannels |-> 0, SampleRate |-> 0, ByteRate |-> 0, BlockAlign |-> 0,
     BitsPerSample |-> 0, Subchunk2ID |-> <<0, 0, 0, 0>>, Subchunk2Size |-> 0]

\* binary.BigEndian.PutUint16 / PutUint32: most significant byte first.
PutUintBigEndian(v, n) ==
    IF n = 2 THEN <<(v \div 256) % 256, v % 256>>
    ELSE <<(v \div 16777216) % 256, (v \div 65536) % 256, (v \div 256) % 256, v % 256>>

\* binary.LittleEndian.PutUint16 / PutUint32: least significant byte first.
PutUint(v, n) ==
    IF n = 2 THEN <<v % 256, (v \div 256) % 256>>
    ELSE <<v % 256, (v \div 256) % 256, (v \div 65536) % 256, (v \div 16777216) % 256>>

\* binary.LittleEndian.Uint16 / Uint32 of the bytes b.
UintFrom(b, n) ==
    IF n = 2 THEN b[1] + b[2] * 256
    ELSE b[1] + b[2] * 256 + b[3] * 65536 + b[4] * 16777216

\* The value binary.Read stores into field k from the bytes it read.
DecodeField(k, b) ==
    IF Fields[k].kind = "bytes" THEN b ELSE UintFrom(b, Fields[k].size)

\* The bytes binary.Write writes for field k of header h.
EncodeField(k, h) ==
    IF Fields[k].kind = "bytes" THEN h[Fields[k].name]
    ELSE PutUint(h[Fields[k].name], Fields[k].size)

Zeros(n) == [i \in 1..n |-> 0]

----------------------------------------------------------------------------
(* Readers and writers. *)

\* A reader delivers the bytes of buf and then reports "EOF" (a stream that
\* ends) or "IOERR" (an I/O error of its own).
NoReader == [buf |-> <<>>, kind |-> "none"]

\* binary.Read of n bytes from reader r at position pos (io.ReadFull: all n
\* bytes or an error; nothing is stored on an error; no read when n = 0).
BinaryRead(r, pos, n) ==
    IF n = 0 THEN [err |-> Nil, bytes |-> <<>>, pos |-> pos]
    ELSE IF pos + n <= Len(r.buf)
    THEN [err |-> Nil, bytes |-> SubSeq(r.buf, pos + 1, pos + n), pos |-> pos + n]
    ELSE [err |-> IF r.kind = "EOF"
                  THEN (IF pos = Len(r.buf) THEN "EOF" ELSE "unexpected EOF")
                  ELSE r.kind,
          bytes |-> <<>>, pos |-> Len(r.buf)]

\* A writer accepts bytes until its capacity is used up (never, when it is not
\* limited), then fails the Write with its own error.
WriteError == "short write"

WriterWrite(w, written, p) ==
    IF ~w.limited \/ written + Len(p) <= w.cap
    THEN [err |-> Nil, accepted |-> p]
    ELSE [err |-> WriteError, accepted |-> SubSeq(p, 1, w.cap - written)]

----------------------------------------------------------------------------
(* Load, validate, Save, Init, SetBytes, SetPCM. *)

\* A validate that forgets the data chunk identifier.
validateNoSubchunk2(h) ==
    IF h.ChunkID # RIFF THEN BadFile
    ELSE IF h.Format # WAVE THEN BadFile
    ELSE IF h.Subchunk1ID # FMT THEN BadFile
    ELSE Nil

validate(h) ==
    IF h.ChunkID # RIFF THEN BadFile
    ELSE IF h.Format # WAVE THEN BadFile
    ELSE IF h.Subchunk1ID # FMT THEN BadFile
    ELSE IF h.Subchunk2ID # DATA THEN BadFile
    ELSE Nil

\* A Load that hands the reader's error on.
HeaderReadErrorPassed(e) == e

\* What Load returns when the read of a header field failed with e.
HeaderReadError(e) == BadFile

RECURSIVE LoadHeader(_, _, _, _)
\* The 13 header reads of Load, from field k on: each stores into its field,
\* the first failure returns.
LoadHeader(h, r, pos, k) ==
    IF k > NumFields
    THEN [Header |-> h, err |-> Nil, rerr |-> Nil, nread |-> NumFields, pos |-> pos]
    ELSE LET res == BinaryRead(r, pos, Fields[k].size)
         IN  IF res.err # Nil
             THEN [Header |-> h, err |-> HeaderReadError(res.err), rerr |-> res.err,
                   nread |-> k, pos |-> res.pos]
             ELSE LoadHeader([h EXCEPT ![Fields[k].name] = DecodeField(k, res.bytes)],
                             r, res.pos, k + 1)

\* A Load that puts the header and the payload back when it fails.
LoadRollback(w, r) ==
    LET hr == LoadHeader(w.Header, r, 0, 1)
    IN  IF hr.err # Nil
        THEN [Header |-> w.Header, Data |-> w.Data, err |-> hr.err,
              rerr |-> hr.rerr, nread |-> hr.nread]
        ELSE LET size == hr.Header.Subchunk2Size
                 pr == BinaryRead(r, hr.pos, size)
                 verr == validate(hr.Header)
             IN  [Header |-> IF verr = Nil THEN hr.Header ELSE w.Header,
                  Data |-> IF verr # Nil THEN w.Data
                           ELSE IF pr.err = Nil THEN pr.bytes ELSE Zeros(size),
                  err |-> verr,
                  rerr |-> Nil, nread |-> NumFields + 1]

\* A Load that returns BadFile when the read of the payload fails.
LoadStrict(w, r) ==
    LET hr == LoadHeader(w.Header, r, 0, 1)
    IN  IF hr.err # Nil
        THEN [Header |-> hr.Header, Data |-> w.Data, err |-> hr.err,
              rerr |-> hr.rerr, nread |-> hr.nread]
        ELSE LET size == hr.Header.Subchunk2Size
                 pr == BinaryRead(r, hr.pos, size)
             IN  [Header |-> hr.Header,
                  Data |-> IF pr.err = Nil THEN pr.bytes ELSE Zeros(size),
                  err |-> IF pr.err # Nil THEN BadFile ELSE validate(hr.Header),
                  rerr |-> pr.err, nread |-> NumFields + 1]

\* Load(r) on the file w = [Header, Data]: after the 13 fields the payload
\* buffer is made with the declared size and filled by one read whose error
\* is dropped, then the header is validated.
Load(w, r) ==
    LET hr == LoadHeader(w.Header, r, 0, 1)
    IN  IF hr.err # Nil
        THEN [Header |-> hr.Header, Data |-> w.Data, err |-> hr.err,
              rerr |-> hr.rerr, nread |-> hr.nread]
        ELSE LET size == hr.Header.Subchunk2Size
                 pr == BinaryRead(r, hr.pos, size)
             IN  [Header |-> hr.Header,
                  Data |-> IF pr.err = Nil THEN pr.bytes ELSE Zeros(size),
                  err |-> validate(hr.Header),
                  rerr |-> Nil, nread |-> NumFields + 1]

\* The 14 values Save writes, in order.
SaveChunks(w) == [k \in 1..(NumFields + 1) |->
                    IF k <= NumFields THEN EncodeField(k, w.Header) ELSE w.Data]

RECURSIVE SaveFromBadFile(_, _, _, _)
\* A Save that reports a failed write as BadFile, the way Load reports a
\* failed read.
SaveFromBadFile(chunks, wr, k, written) ==
    IF k > Len(chunks) THEN [err |-> Nil, out |-> written, nwrite |-> k - 1]
    ELSE LET res == WriterWrite(wr, Len(written), chunks[k])
         IN  IF res.err # Nil
             THEN [err |-> BadFile, out |-> written \o res.accepted, nwrite |-> k]
             ELSE SaveFromBadFile(chunks, wr, k + 1, written \o res.accepted)

RECURSIVE SaveFrom(_, _, _, _)
\* The writes of Save from chunk k on: the first failure returns its error.
SaveFrom(chunks, wr, k, written) ==
    IF k > Len(chunks) THEN [err |-> Nil, out |-> written, nwrite |-> k - 1]
    ELSE LET res == WriterWrite(wr, Len(written), chunks[k])
         IN  IF res.err # Nil
             THEN [err |-> res.err, out |-> written \o res.accepted, nwrite |-> k]
             ELSE SaveFrom(chunks, wr, k + 1, written \o res.accepted)

Save(w, wr) == SaveFrom(SaveChunks(w), wr, 1, <<>>)

\* An Init that leaves the chunk size as it was.
InitKeepChunkSize(h) ==
    [ChunkID |-> RIFF, ChunkSize |-> h.ChunkSize, Format |-> WAVE, Subchunk1ID |-> FMT,
     Subchunk1Size |-> 16, AudioFormat |-> 1, NumChannels |-> 1,
     SampleRate |-> 44100, ByteRate |-> 44100 * 2, BlockAlign |-> 2,
     BitsPerSample |-> 16, Subchunk2ID |-> DATA, Subchunk2Size |-> 0]

\* The header after Init on a file whose header was h.
InitHeader(h) ==
    [h EXCEPT !.ChunkID = RIFF, !.ChunkSize = 36, !.Format = WAVE,
              !.Subchunk1ID = FMT, !.Subchunk1Size = 16, !.AudioFormat = 1,
              !.NumChannels = 1, !.SampleRate = 44100, !.ByteRate = 44100 * 2,
              !.BlockAlign = 2, !.BitsPerSample = 16, !.Subchunk2ID = DATA,
              !.Subchunk2Size = 0]

\* A SetBytes that also recomputes the chunk size.
SetBytesChunkSize(w, b) ==
    [Header |-> [w.Header EXCEPT !.Subchunk2Size = Len(b), !.ChunkSize = 36 + Len(b)],
     Data |-> b]

SetBytes(w, b) ==
    [Header |-> [w.Header EXCEPT !.Subchunk2Size = Len(b)], Data |-> b]

RECURSIVE PCMBytesHighFirst(_)
\* A buffer with the two bytes of every sample swapped.
PCMBytesHighFirst(pcm) ==
    IF pcm = <<>> THEN <<>>
    ELSE LET p == Signed16ToBytes(Head(pcm))
         IN  <<p[2], p[1]>> \o PCMBytesHighFirst(Tail(pcm))

RECURSIVE PCMBytes(_)
\* The buffer SetPCM fills: the <<low, high>> pair of each sample, in order.
PCMBytes(pcm) ==
    IF pcm = <<>> THEN <<>> ELSE Signed16ToBytes(Head(pcm)) \o PCMBytes(Tail(pcm))

SetPCM(w, pcm) == SetBytes(w, PCMBytes(pcm))

\* A GetBytes that skips the first byte of the payload.
GetBytesTail(w) == IF w.Data = <<>> THEN <<>> ELSE Tail(w.Data)

GetBytes(w) == w.Data

\* A GetPCM that rounds the number of samples up and pads the last pair.
GetPCMPadded(w) ==
    LET bytes == GetBytes(w) \o <<0>>
    IN  [i \in 1..((Len(bytes)) \div 2) |->
            BytesToSigned16(bytes[2 * i - 1], bytes[2 * i])]

\* bytes[i*2], bytes[i*2+1] of the source are bytes[2i-1], bytes[2i] here.
GetPCM(w) ==
    LET bytes == GetBytes(w)
    IN  [i \in 1..(Len(bytes) \div 2) |->
            BytesToSigned16(bytes[2 * i - 1], bytes[2 * i])]

----------------------------------------------------------------------------
(* The calls the model makes: bounded sets of streams, writers and payloads. *)

\* Longest payload of a stream and of a SetBytes argument.
MaxLen == 2
\* Longest sample sequence handed to SetPCM.
MaxPCM == 2

\* The canonical 44-byte header of the tests.
validWaveBuf == <<
    82, 73, 70, 70,      \* ChunkID
    36, 0, 0, 0,         \* ChunkSize
    87, 65, 86, 69,      \* Format
    102, 109, 116, 32,   \* Subchunk1ID
    16, 0, 0, 0,         \* Subchunk1Size
    1, 0,                \* AudioFormat
    1, 0,                \* NumChannels
    68, 172, 0, 0,       \* SampleRate 44100
    136, 88, 1, 0,       \* ByteRate 88200
    2, 0,                \* BlockAlign
    16, 0,               \* BitsPerSample
    100, 97, 116, 97,    \* Subchunk2ID
    0, 0, 0, 0 >>        \* Subchunk2Size

\* A header with the four identifiers intact and every other field changed.
otherWaveBuf == <<
    82, 73, 70, 70,
    4, 3, 2, 1,
    87, 65, 86, 69,
    102, 109, 116, 32,
    18, 1, 0, 0,
    3, 1,
    2, 0,
    128, 187, 0, 0,
    0, 238, 2, 0,
    4, 1,
    24, 0,
    100, 97, 116, 97,
    0, 0, 0, 0 >>

\* The offsets of the four identifiers (badId, badFormat, badSubchunkId,
\* badSubchunkId2 of the tests zero the first byte of one of them).
MagicOffsets == {0, 8, 12, 36}

Corrupt(buf, offs) == [i \in 1..Len(buf) |-> IF (i - 1) \in offs THEN 0 ELSE buf[i]]

\* The stream with n stored in the low byte of Subchunk2Size (newBuf[40] = n).
WithSize(buf, n) == [buf EXCEPT ![41] = n]

HeaderBufs ==
    {validWaveBuf, otherWaveBuf}
        \cup {Corrupt(validWaveBuf, {o}) : o \in MagicOffsets}
        \cup {Corrupt(otherWaveBuf, MagicOffsets)}

\* Payloads of every length up to MaxLen: the bytes 128, 129, ...
Payloads == {[i \in 1..n |-> 127 + i] : n \in 0..MaxLen}

\* Streams with a whole header: the declared size equal to the payload's
\* length, and the canonical header with every declared size up to one more
\* than the longest payload.
FullStreams ==
    {WithSize(hb, Len(p)) \o p : hb \in HeaderBufs, p \in Payloads}
        \cup {WithSize(validWaveBuf, n) \o p : n \in 0..(MaxLen + 1), p \in Payloads}

\* Streams that end inside the header, at every length.
ShortStreams ==
    {SubSeq(validWaveBuf, 1, l) : l \in 0..(HeaderSize - 1)}

\* Readers that report an I/O error: before each header field and before the
\* payload.
FailingReaders ==
    {[buf |-> SubSeq(WithSize(validWaveBuf, 1), 1, FieldOffset(k)), kind |-> "IOERR"] :
        k \in 1..(NumFields + 1)}

Readers ==
    {[buf |-> b, kind |-> "EOF"] : b \in FullStreams \cup ShortStreams}
        \cup FailingReaders

\* Writers: one that takes everything, and writers that fail at each of the
\* 14 writes or in the middle of the first.
Unlimited == [limited |-> FALSE, cap |-> 0]
WriterCaps == {FieldOffset(k) : k \in 1..(NumFields + 1)} \cup {1}
Writers == {Unlimited} \cup {[limited |-> TRUE, cap |-> c] : c \in WriterCaps}

\* Sample sequences: the windows of up to MaxPCM samples of SamplePattern.
SamplePattern == <<MAX_16_BIT, 1, -1, MIN_16_BIT, 0>>
PCMs == UNION {{SubSeq(SamplePattern, i, i + n - 1) :
                    i \in 1..(Len(SamplePattern) - n + 1)} : n \in 0..MaxPCM}

----------------------------------------------------------------------------
(* The state machine of one Wavefile. *)

File == [Header |-> Header, Data |-> Data]

CodecIdle == sample = 0 /\ pair = <<0, 0>> /\ back = 0 /\ cpc = "idle"

\* af := &Wavefile{}
Init ==
    /\ Header = ZeroHeader
    /\ Data = <<>>
    /\ op = "New"
    /\ err = Nil
    /\ rd = NoReader
    /\ nread = 0
    /\ rerr = Nil
    /\ src = <<>>
    /\ wcap = Unlimited
    /\ out = <<>>
    /\ arg = <<>>
    /\ nwrite = 0
    /\ ret = <<>>
    /\ CodecIdle

InitCall ==
    /\ Header' = InitHeader(Header)
    /\ Data' = Data
    /\ op' = "Init"
    /\ err' = Nil
    /\ rd' = NoReader /\ nread' = 0 /\ rerr' = Nil /\ src' = <<>>
    /\ wcap' = Unlimited /\ out' = <<>> /\ arg' = <<>>
    /\ nwrite' = 0 /\ ret' = <<>>
    /\ UNCHANGED codecVars

LoadCall ==
    \E r \in Readers :
        \E res \in {Load(File, r)} :
            /\ Header' = res.Header
            /\ Data' = res.Data
            /\ op' = "Load"
            /\ err' = res.err
            /\ rd' = r
            /\ nread' = res.nread
            /\ rerr' = res.rerr
            /\ src' = IF res.err = Nil THEN r.buf ELSE <<>>
            /\ wcap' = Unlimited /\ out' = <<>> /\ arg' = <<>>
            /\ nwrite' = 0 /\ ret' = <<>>
            /\ UNCHANGED codecVars

SaveCall ==
    \E wr \in Writers :
        \E res \in {Save(File, wr)} :
            /\ UNCHANGED <<Header, Data>>
            /\ op' = "Save"
            /\ err' = res.err
            /\ out' = res.out
            /\ wcap' = wr
            /\ rd' = NoReader /\ nread' = 0 /\ rerr' = Nil
            /\ UNCHANGED src
            /\ arg' = <<>>
            /\ nwrite' = res.nwrite /\ ret' = <<>>
            /\ UNCHANGED codecVars

SetBytesCall ==
    \E b \in Payloads :
        \E res \in {SetBytes(File, b)} :
            /\ Header' = res.Header
            /\ Data' = res.Data
            /\ op' = "SetBytes"
            /\ err' = Nil
            /\ rd' = NoReader /\ nread' = 0 /\ rerr' = Nil /\ src' = <<>>
            /\ wcap' = Unlimited /\ out' = <<>> /\ arg' = b
            /\ nwrite' = 0 /\ ret' = <<>>
            /\ UNCHANGED codecVars

SetPCMCall ==
    \E pcm \in PCMs :
        \E res \in {SetPCM(File, pcm)} :
            /\ Header' = res.Header
            /\ Data' = res.Data
            /\ op' = "SetPCM"
            /\ err' = Nil
            /\ rd' = NoReader /\ nread' = 0 /\ rerr' = Nil /\ src' = <<>>
            /\ wcap' = Unlimited /\ out' = <<>> /\ arg' = pcm
            /\ nwrite' = 0 /\ ret' = <<>>
            /\ UNCHANGED codecVars

\* b := af.GetBytes()
GetBytesCall ==
    /\ ret' = GetBytes(File)
    /\ op' = "GetBytes"
    /\ err' = Nil
    /\ UNCHANGED <<Header, Data, src, arg>>
    /\ rd' = NoReader /\ nread' = 0 /\ rerr' = Nil
    /\ wcap' = Unlimited /\ out' = <<>> /\ nwrite' = 0
    /\ UNCHANGED codecVars

\* pcm := GetPCM(af)
GetPCMCall ==
    /\ ret' = GetPCM(File)
    /\ op' = "GetPCM"
    /\ err' = Nil
    /\ UNCHANGED <<Header, Data, src, arg>>
    /\ rd' = NoReader /\ nread' = 0 /\ rerr' = Nil
    /\ wcap' = Unlimited /\ out' = <<>> /\ nwrite' = 0
    /\ UNCHANGED codecVars

Next ==
    \/ InitCall \/ LoadCall \/ SaveCall \/ SetBytesCall \/ SetPCMCall
    \/ GetBytesCall \/ GetPCMCall

Spec == Init /\ [][Next]_vars

----------------------------------------------------------------------------
(* One Wavefile and the slice it shares with its caller. SetBytes stores the *)
(* caller's slice and GetBytes returns the file's own, so right after either *)
(* call the caller (or another Wavefile handed the same slice) holds the     *)
(* array Data points to, and an element it writes is an element of Data.     *)

\* b[i] = v by the holder of the slice b last handed to SetBytes or returned
\* by GetBytes.
CallerWrite ==
    /\ op \in {"SetBytes", "GetBytes", "Write"}
    /\ \E i \in 1..Len(Data) :
          \E v \in {7} :
              /\ Data[i] # v
              /\ Data' = [Data EXCEPT ![i] = v]
    /\ op' = "Write"
    /\ err' = Nil
    /\ UNCHANGED Header
    /\ rd' = NoReader /\ nread' = 0 /\ rerr' = Nil /\ src' = <<>>
    /\ wcap' = Unlimited /\ out' = <<>> /\ arg' = <<>>
    /\ nwrite' = 0 /\ ret' = <<>>
    /\ UNCHANGED codecVars

NextAlias ==
    \/ InitCall \/ SaveCall \/ SetBytesCall \/ SetPCMCall
    \/ GetBytesCall \/ GetPCMCall \/ CallerWrite

SpecAlias == Init /\ [][NextAlias]_vars

----------------------------------------------------------------------------
(* The sample codec on its whole domain: every int16 value is encoded and   *)
(* decoded back, every byte pair is decoded and encoded back.               *)

InitCodec ==
    /\ Header = ZeroHeader /\ Data = <<>> /\ op = "New" /\ err = Nil
    /\ rd = NoReader /\ nread = 0 /\ rerr = Nil /\ src = <<>>
    /\ wcap = Unlimited /\ out = <<>> /\ arg = <<>>
    /\ nwrite = 0 /\ ret = <<>>
    /\ back = 0
    /\ \/ cpc = "sample" /\ sample \in Int16 /\ pair = <<0, 0>>
       \/ cpc = "pair" /\ pair \in Byte \X Byte /\ sample = 0

Encode ==
    /\ cpc = "sample"
    /\ pair' = Signed16ToBytes(sample)
    /\ cpc' = "encoded"
    /\ UNCHANGED <<sample, back>>
    /\ UNCHANGED wavVars

DecodeBack ==
    /\ cpc = "encoded"
    /\ back' = BytesToSigned16(pair[1], pair[2])
    /\ cpc' = "encdec"
    /\ UNCHANGED <<sample, pair>>
    /\ UNCHANGED wavVars

Decode ==
    /\ cpc = "pair"
    /\ sample' = BytesToSigned16(pair[1], pair[2])
    /\ cpc' = "decoded"
    /\ UNCHANGED <<pair, back>>
    /\ UNCHANGED wavVars

EncodeBack ==
    /\ cpc = "decoded"
    /\ back' = Signed16ToBytes(sample)
    /\ cpc' = "decenc"
    /\ UNCHANGED <<sample, pair>>
    /\ UNCHANGED wavVars

\* SetPCM(af, pcm) with the given sample last in pcm.
SetPCMSample ==
    /\ cpc = "sample"
    /\ \E pcm \in {<<sample>>, <<1, sample>>} :
          \E res \in {SetPCM(File, pcm)} :
              /\ Header' = res.Header
              /\ Data' = res.Data
              /\ arg' = pcm
    /\ op' = "SetPCM"
    /\ err' = Nil
    /\ rd' = NoReader /\ nread' = 0 /\ rerr' = Nil /\ src' = <<>>
    /\ wcap' = Unlimited /\ out' = <<>>
    /\ nwrite' = 0 /\ ret' = <<>>
    /\ cpc' = "setpcm"
    /\ UNCHANGED <<sample, pair, back>>

\* GetPCM(af) on the file SetPCMSample left.
GetPCMSample ==
    /\ cpc = "setpcm"
    /\ ret' = GetPCM(File)
    /\ op' = "GetPCM"
    /\ err' = Nil
    /\ UNCHANGED <<Header, Data, src, arg>>
    /\ rd' = NoReader /\ nread' = 0 /\ rerr' = Nil
    /\ wcap' = Unlimited /\ out' = <<>> /\ nwrite' = 0
    /\ cpc' = "getpcm"
    /\ UNCHANGED <<sample, pair, back>>

NextCodec ==
    \/ Encode \/ DecodeBack \/ Decode \/ EncodeBack
    \/ SetPCMSample \/ GetPCMSample

SpecCodec == InitCodec /\ [][NextCodec]_vars

----------------------------------------------------------------------------
(* Properties of the header codec. *)

\* The identifiers of a stream of at least 44 bytes, read off its bytes.
MagicIntact(x) ==
    /\ SubSeq(x, 1, 4) = <<82, 73, 70, 70>>
    /\ SubSeq(x, 9, 12) = <<87, 65, 86, 69>>
    /\ SubSeq(x, 13, 16) = <<102, 109, 116, 32>>
    /\ SubSeq(x, 37, 40) = <<100, 97, 116, 97>>

\* The payload length a stream declares in its bytes 40..43 (little-endian).
DeclaredSize(x) == x[41] + 256 * x[42] + 65536 * x[43] + 16777216 * x[44]

\* A 44-byte header with intact identifiers followed by exactly the payload
\* it declares.
WellFormed(x) ==
    /\ Len(x) >= 44
    /\ MagicIntact(x)
    /\ Len(x) - 44 = DeclaredSize(x)

\* C1: round trip. Load of a well-formed stream x (intact identifiers, as
\* many payload bytes as Subchunk2Size declares) returns nil, and a Save that
\* follows it on a writer that takes everything writes exactly x.
C1_RoundTrip ==
    /\ (op = "Load" /\ WellFormed(rd.buf)) => (err = Nil /\ src = rd.buf)
    /\ (op = "Save" /\ ~wcap.limited /\ WellFormed(src)) => (err = Nil /\ out = src)

C1_Witness ==
    /\ op = "Save" /\ ~wcap.limited /\ err = Nil
    /\ WellFormed(src) /\ Len(src) > 44 /\ out = src

\* C2: after a successful Load, a successful Save, or a SetBytes/SetPCM call,
\* Header.Subchunk2Size = len(Data).
C2_PayloadLength ==
    (op \in {"SetBytes", "SetPCM"} \/ (op \in {"Load", "Save"} /\ err = Nil))
        => Header.Subchunk2Size = Len(Data)

FailingField(l) ==
    CHOOSE k \in 1..13 : FieldOffset(k) <= l /\ l < FieldOffset(k + 1)

\* C4: when the read of a header field fails (a stream shorter than 44 bytes,
\* empty included, or a reader reporting an I/O error) Load returns BadFile,
\* never the reader's error, and the failed read is the last read it makes.
C4_ReadFailure ==
    (op = "Load" /\ Len(rd.buf) < 44)
        => /\ err = BadFile
           /\ rerr \in {"EOF", "unexpected EOF", "IOERR"}
           /\ rd.kind = "IOERR" => rerr = "IOERR"
           /\ rd.kind = "EOF" => rerr \in {"EOF", "unexpected EOF"}
           /\ err # rerr
           /\ nread = FailingField(Len(rd.buf))

C4_Witness ==
    /\ op = "Load" /\ rd.kind = "IOERR" /\ rerr = "IOERR"
    /\ nread = 7 /\ err = BadFile

\* The canonical defaults.
CanonicalHeader ==
    [ChunkID |-> <<82, 73, 70, 70>>, ChunkSize |-> 36, Format |-> <<87, 65, 86, 69>>,
     Subchunk1ID |-> <<102, 109, 116, 32>>, Subchunk1Size |-> 16, AudioFormat |-> 1,
     NumChannels |-> 1, SampleRate |-> 44100, ByteRate |-> 88200, BlockAlign |-> 2,
     BitsPerSample |-> 16, Subchunk2ID |-> <<100, 97, 116, 97>>, Subchunk2Size |-> 0]

\* C5: after Init, whatever the header was, the 13 fields hold the canonical
\* defaults, validate returns nil, and another Init leaves the header as it is.
C5_InitDefaults ==
    op = "Init"
        => /\ Header = CanonicalHeader
           /\ validate(Header) = Nil
           /\ InitHeader(Header) = Header

\* Init called on a file that holds a payload.
C5_Witness == op = "Init" /\ Len(Data) = 2 /\ Header = CanonicalHeader

\* C6: after Init the payload is empty.
C6_InitClearsData == op = "Init" => (Data = <<>> /\ Len(Data) = Header.Subchunk2Size)

\* C10: SetBytes(b) makes Data equal to b and Subchunk2Size equal to len(b)
\* and leaves the other 12 header fields, ChunkSize included, as they were.
C10_SetBytesFrame ==
    [][op' = "SetBytes"
        => /\ Data' = arg'
           /\ Header'.Subchunk2Size = Len(arg')
           /\ \A k \in 1..12 : Header'[Fields[k].name] = Header[Fields[k].name]]_vars

\* SetBytes with a payload of odd length on a file loaded with a chunk size
\* that is not 36 + len(b).
C10_Witness ==
    /\ op = "SetBytes" /\ Len(arg) = 1 /\ Data = arg
    /\ Header.Subchunk2Size = 1 /\ Header.ChunkSize = 16909060

\* C11: after a successful Load of a stream that declares Subchunk2Size = n
\* and holds at least n bytes after its 44-byte header, GetBytes returns
\* exactly the stream's bytes 44..44+n-1, in order: no header byte, and no
\* byte at or after offset 44+n.
C11_GetBytesPayload ==
    (op = "GetBytes" /\ Len(src) >= 44 /\ Len(src) - 44 >= DeclaredSize(src))
        => /\ Len(ret) = DeclaredSize(src)
           /\ \A i \in 1..Len(ret) : ret[i] = src[44 + i]

\* GetBytes after the load of a stream that goes on after its payload.
C11_Witness ==
    /\ op = "GetBytes" /\ Len(src) >= 44
    /\ DeclaredSize(src) = 1 /\ Len(src) = 46
    /\ ret = <<src[45]>>

\* C12: GetPCM on a payload of N bytes returns floor(N/2) samples, sample i
\* being BytesToSigned16 of the payload's bytes 2i and 2i+1 (low byte first);
\* the trailing byte of an odd payload is dropped, and the call leaves the
\* header and Data as they were (so a second GetPCM returns the same samples).
C12_GetPCM ==
    [][op' = "GetPCM"
        => /\ Header' = Header
           /\ Data' = Data
           /\ Len(ret') = Len(Data) \div 2
           /\ \A i \in 1..Len(ret') :
                  ret'[i] = BytesToSigned16(Data[2 * i - 1], Data[2 * i])
           /\ 2 * Len(ret') <= Len(Data)]_vars

\* GetPCM on a payload of three bytes: one sample, the third byte dropped.
C12_Witness == op = "GetPCM" /\ Len(Data) = 3 /\ Len(ret) = 1

\* C13: SetPCM(pcm) replaces the payload with 2*len(pcm) bytes, bytes 2i and
\* 2i+1 being the (low, high) pair Signed16ToBytes(pcm[i]), and leaves
\* Subchunk2Size = 2*len(pcm); [32767, 1] gives 255,127,1,0 and [-32768, 0]
\* gives 0,128,0,0.
C13_SetPCM ==
    op = "SetPCM"
        => /\ Len(Data) = 2 * Len(arg)
           /\ \A i \in 1..Len(arg) :
                  <<Data[2 * i - 1], Data[2 * i]>> = Signed16ToBytes(arg[i])
           /\ Header.Subchunk2Size = 2 * Len(arg)
           /\ arg = <<>> => Data = <<>>
           /\ arg = <<32767, 1>> => Data = <<255, 127, 1, 0>>
           /\ arg = <<-32768, 0>> => Data = <<0, 128, 0, 0>>

C13_Witness ==
    /\ op = "SetPCM" /\ arg = <<-32768, 0>>
    /\ Data = <<0, 128, 0, 0>> /\ Header.Subchunk2Size = 4

\* The n bytes of v, least significant first.
LittleEndian(v, n) == [i \in 1..n |-> (v \div (256 ^ (i - 1))) % 256]

\* The serialization of a file: the 13 fields in layout order, then the
\* payload.
Serialized(h, d) ==
    h.ChunkID \o LittleEndian(h.ChunkSize, 4) \o h.Format \o h.Subchunk1ID
        \o LittleEndian(h.Subchunk1Size, 4) \o LittleEndian(h.AudioFormat, 2)
        \o LittleEndian(h.NumChannels, 2) \o LittleEndian(h.SampleRate, 4)
        \o LittleEndian(h.ByteRate, 4) \o LittleEndian(h.BlockAlign, 2)
        \o LittleEndian(h.BitsPerSample, 2) \o h.Subchunk2ID
        \o LittleEndian(h.Subchunk2Size, 4) \o d

\* The end offset of write k of Save (k = 14 is the payload).
WriteEnd(k, d) == IF k = 14 THEN 44 + Len(d) ELSE FieldOffset(k + 1)

\* The outcome of a Save on the writer wcap, by what the writer takes.
SaveOutcome ==
    LET full == Serialized(Header, Data)
        fits == ~wcap.limited \/ Len(full) <= wcap.cap
    IN  /\ (err = Nil) <=> fits
        /\ (err = Nil) <=> (nwrite = 14 /\ out = full)
        /\ err # Nil =>
              /\ err = WriteError
              /\ nwrite \in 1..14
              /\ WriteEnd(nwrite, Data) > wcap.cap
              /\ \A j \in 1..(nwrite - 1) : WriteEnd(j, Data) <= wcap.cap
              /\ Len(out) <= wcap.cap
              /\ out = SubSeq(full, 1, Len(out))

\* C14: Save performs no validation and fails only on a write error. In every
\* state of the file, wrong magic fields or Subchunk2Size # len(Data)
\* included, it returns nil exactly when all 14 writes succeed; when a write
\* fails it returns that write's error, makes no further write, and what it
\* wrote is a prefix of the full serialization. It never changes the header
\* or Data.
C14_SaveWrites ==
    /\ [](op = "Save" => SaveOutcome)
    /\ [][op' = "Save" => (Header' = Header /\ Data' = Data)]_vars

\* A Save of a header with a wrong ChunkID that fails in its first write,
\* after one byte.
C14_Witness ==
    /\ op = "Save" /\ err = WriteError /\ nwrite = 1
    /\ validate(Header) = BadFile /\ out = <<0>>

\* A stream with a whole header and intact identifiers that holds fewer
\* payload bytes than it declares.
ShortPayload(x) ==
    /\ Len(x) >= 44
    /\ MagicIntact(x)
    /\ Len(x) - 44 < DeclaredSize(x)

LayoutOffsets == <<0, 4, 8, 12, 16, 20, 22, 24, 28, 32, 34, 36, 40, 44>>

\* The value of field j as the bytes of the stream x give it: the four bytes
\* of an identifier, the little-endian number of the other fields.
StreamField(x, j) ==
    LET o == LayoutOffsets[j]
    IN  IF Fields[j].kind = "bytes" THEN <<x[o + 1], x[o + 2], x[o + 3], x[o + 4]>>
        ELSE IF Fields[j].size = 2 THEN x[o + 1] + 256 * x[o + 2]
        ELSE x[o + 1] + 256 * x[o + 2] + 65536 * x[o + 3] + 16777216 * x[o + 4]

\* The file after a Load whose read of field k failed on the stream x: fields
\* 1..k-1 are those of x, fields k..13 and Data are as before.
PartlyLoaded(k, x) ==
    /\ \A j \in 1..13 :
          Header'[Fields[j].name] =
              IF j < k THEN StreamField(x, j) ELSE Header[Fields[j].name]
    /\ Data' = Data
    /\ Header.Subchunk2Size = Len(Data) => Header'.Subchunk2Size = Len(Data')

\* The file after a Load that read the whole header of x and failed in
\* validate: header and payload are those of x.
WhollyLoaded(x) ==
    /\ \A j \in 1..13 : Header'[Fields[j].name] = StreamField(x, j)
    /\ Len(Data') = DeclaredSize(x)
    /\ Len(x) >= 44 + DeclaredSize(x) => Data' = SubSeq(x, 45, 44 + DeclaredSize(x))

\* C16: a failed Load on a file that holds a header and a payload. When the
\* read of field k fails, fields 1..k-1 hold the values just read, fields
\* k..13 and Data keep their previous values (Subchunk2Size = len(Data) still
\* holds if it held before); when all reads succeed and validate fails, the
\* header and Data are those of the stream and are not put back.
C16_FailedLoad ==
    [][(op' = "Load" /\ err' # Nil)
        => IF nread' <= 13
           THEN PartlyLoaded(nread', rd'.buf)
           ELSE WhollyLoaded(rd'.buf)]_vars

\* A load that failed at field 7 on a file loaded before: ChunkSize is the new
\* one, SampleRate and the payload are the old ones.
C16_Witness ==
    /\ op = "Load" /\ err = BadFile /\ nread = 7
    /\ Header.ChunkSize = 36 /\ Header.SampleRate = 48000 /\ Len(Data) = 2

\* C17: each Wavefile owns its payload bytes exclusively: a write into the
\* slice handed to SetBytes or returned by GetBytes, by the caller or through
\* another Wavefile given the same slice, does not change the bytes the file
\* returns from GetBytes or writes in Save.
C17_ExclusivePayload ==
    [][op' = "Write"
        => /\ Data' = Data
           /\ GetBytes(File') = GetBytes(File)]_vars

----------------------------------------------------------------------------
(* Properties of the sample codec. *)

\* C7: Signed16ToBytes and BytesToSigned16 are inverses of each other: every
\* int16 value comes back from its byte pair, every byte pair from its value.
C7_Inverse ==
    /\ cpc = "encdec" => back = sample
    /\ cpc = "decenc" => back = pair

\* The byte pair that decodes to v.
PairOf(v) ==
    IF v = -32768 THEN <<0, 128>>
    ELSE IF v >= 0 THEN <<v % 256, v \div 256>>
    ELSE <<(-v) % 256, 128 + ((-v) \div 256)>>

C9_BitCopy ==
    cpc = "decoded"
        => sample = (IF pair[2] * 256 + pair[1] >= 32768
                     THEN pair[2] * 256 + pair[1] - 65536
                     ELSE pair[2] * 256 + pair[1])

====
